---- MODULE Spec2Model ----
(***************************************************************************)
(* Receipt Extraction Pipeline of business-cost-tracker (backend/).        *)
(*                                                                         *)
(* The state is the ledger store (receipts, extracted_transactions), the   *)
(* router's in-memory processing_status_store, the processor's             *)
(* processing_history and category_patterns, and the background tasks      *)
(* scheduled on the event loop.  One action per handler / public operation *)
(* of routers/receipts.py, receipt_processor.py and crud_receipts.py; a    *)
(* coroutine is cut into steps at its await points.                        *)
(*                                                                         *)
(* Python values: a str that the code inspects (lower, split, in) is a     *)
(* sequence of one-character strings; an opaque str (status, mime type,    *)
(* date text, exception text) is a TLA+ string; Optional[x] is the set {}  *)
(* (None) or {x}; a float amount is an integer number of cents and a       *)
(* progress fraction an integer percentage.                                *)
(***************************************************************************)
EXTENDS Integers, Sequences, FiniteSets, TLC

\* ------------------------------------------------------------------ bounds
MaxReceipts == 1
MaxTasks    == 2
NumUsers    == 2

Users      == 1..NumUsers
ReceiptIds == 1..MaxReceipts

\* ------------------------------------------------------- Optional[...] values
None      == {}
Some(x)   == {x}
Get(o)    == CHOOSE x \in o : TRUE

\* ------------------------------------------------------------ str as <<chars>>
UpperChars == <<"A","B","C","D","E","F","G","H","I","J","K","L","M",
                "N","O","P","Q","R","S","T","U","V","W","X","Y","Z">>
LowerChars == <<"a","b","c","d","e","f","g","h","i","j","k","l","m",
                "n","o","p","q","r","s","t","u","v","w","x","y","z">>

\* str.lower(), one character
LowerChar(c) ==
    IF \E i \in 1..Len(UpperChars) : UpperChars[i] = c
    THEN LowerChars[CHOOSE i \in 1..Len(UpperChars) : UpperChars[i] = c]
    ELSE c

\* str.lower()
Lower(s) == [i \in 1..Len(s) |-> LowerChar(s[i])]

\* `p in s` for two str
IsSubstring(p, s) ==
    \E k \in 0..(Len(s) - Len(p)) : \A i \in 1..Len(p) : s[k + i] = p[i]

\* ------------------------------------------------------------------- dates
\* datetime.now().strftime("%Y-%m-%d")
Today == "2026-11-02"

\* datetime.strptime(s, "%Y-%m-%d") succeeds
StrptimeOk(s) == s \in {"2024-01-05", Today}

\* datetime.strptime(s, "%Y-%m-%d").date() as <<year, month, day>>
Strptime(s) ==
    CASE s = "2024-01-05" -> <<2024, 1, 5>>
      [] s = Today        -> <<2026, 11, 2>>

\* ------------------------------------------------ receipt_processor.py: data
Miscellaneous == <<"M","i","s","c","e","l","l","a","n","e","o","u","s">>
ParsingFailedPrefix ==
    <<"R","e","c","e","i","p","t"," ","p","a","r","s","i","n","g"," ",
      "f","a","i","l","e","d",":"," ">>
Ellipsis == <<".",".",".">>
Space    == <<" ">>

\* the dict built by _load_category_patterns when no file exists, as the
\* sequence of its items in insertion order
DefaultCategoryPatterns ==
    << [category |-> <<"F","o","o","d">>,
        patterns |-> << <<"r","e","s","t","a","u","r","a","n","t">>,
                      <<"c","a","f","é">>,
                      <<"g","r","o","c","e","r","y">>,
                      <<"m","e","a","l">>,
                      <<"l","u","n","c","h">>,
                      <<"d","i","n","n","e","r">>,
                      <<"b","r","e","a","k","f","a","s","t">> >>],
       [category |-> <<"T","r","a","v","e","l">>,
        patterns |-> << <<"a","i","r","l","i","n","e">>,
                      <<"f","l","i","g","h","t">>,
                      <<"t","a","x","i">>,
                      <<"u","b","e","r">>,
                      <<"l","y","f","t">>,
                      <<"t","r","a","i","n">>,
                      <<"b","u","s">>,
                      <<"r","e","n","t","a","l"," ","c","a","r">> >>],
       [category |-> <<"O","f","f","i","c","e"," ","S","u","p","p","l","i","e","s">>,
        patterns |-> << <<"p","a","p","e","r">>,
                      <<"p","e","n">>,
                      <<"i","n","k">>,
                      <<"t","o","n","e","r">>,
                      <<"s","t","a","p","l","e","r">>,
                      <<"o","f","f","i","c","e">> >>],
       [category |-> <<"A","c","c","o","m","m","o","d","a","t","i","o","n">>,
        patterns |-> << <<"h","o","t","e","l">>,
                      <<"m","o","t","e","l">>,
                      <<"a","i","r","b","n","b">>,
                      <<"l","o","d","g","i","n","g">>,
                      <<"i","n","n">> >>],
       [category |-> <<"U","t","i","l","i","t","i","e","s">>,
        patterns |-> << <<"e","l","e","c","t","r","i","c">>,
                      <<"w","a","t","e","r">>,
                      <<"g","a","s">>,
                      <<"i","n","t","e","r","n","e","t">>,
                      <<"p","h","o","n","e">>,
                      <<"m","o","b","i","l","e">> >>],
       [category |-> <<"E","n","t","e","r","t","a","i","n","m","e","n","t">>,
        patterns |-> << <<"m","o","v","i","e">>,
                      <<"t","h","e","a","t","r","e">>,
                      <<"c","o","n","c","e","r","t">>,
                      <<"s","h","o","w">>,
                      <<"g","a","m","e">> >>] >>

\* Python truthiness of an Optional[str] held as characters, of an Optional
\* date text, and of an Optional[float]
TruthyStr(o)   == o # None /\ Get(o) # <<>>
TruthyText(o)  == o # None /\ Get(o) # ""
TruthyFloat(o) == o # None /\ Get(o) # 0

\* Transaction.validate_date
validate_date(v) == IF ~TruthyText(v) THEN Some(Today) ELSE v

\* Transaction.validate_category
validate_category(v) == IF ~TruthyStr(v) THEN Some(Miscellaneous) ELSE v

\* Transaction(**item): the two pre-validators applied to one returned item
Transaction(item) ==
    [description |-> item.description,
     amount      |-> item.amount,
     date        |-> validate_date(item.date),
     category    |-> validate_category(item.category)]

\* ReceiptData(**json): the chain's JSON answer as a typed Receipt Draft
ReceiptData(json) ==
    [merchant_name |-> json.merchant_name,
     receipt_date  |-> json.receipt_date,
     receipt_total |-> json.receipt_total,
     transactions  |-> [i \in 1..Len(json.transactions) |->
                            Transaction(json.transactions[i])]]

\* sum(t.amount for t in transactions)
RECURSIVE SumAmounts(_)
SumAmounts(txs) ==
    IF txs = <<>> THEN 0 ELSE Head(txs).amount + SumAmounts(Tail(txs))

\* the inner loop of _suggest_category over one category's patterns
AnyPatternMatches(patterns, text_to_check) ==
    \E i \in 1..Len(patterns) : IsSubstring(Lower(patterns[i]), text_to_check)

\* a suggestion that keeps looking after a match and answers with the last
\* category one of whose patterns occurs in the text
SuggestLastCategory(description, merchant_name, patterns) ==
    LET text_to_check ==
            Lower(description \o Space \o
                  (IF TruthyStr(merchant_name) THEN Get(merchant_name) ELSE <<>>))
        hits == {i \in 1..Len(patterns) :
                    AnyPatternMatches(patterns[i].patterns, text_to_check)}
    IN  IF hits = {} THEN None
        ELSE Some(patterns[CHOOSE i \in hits : \A j \in hits : i >= j].category)

\* ReceiptProcessor._suggest_category: the first category, in the order of
\* category_patterns.items(), one of whose patterns occurs in the text
_suggest_category(description, merchant_name, patterns) ==
    LET text_to_check ==
            Lower(description \o Space \o
                  (IF TruthyStr(merchant_name) THEN Get(merchant_name) ELSE <<>>))
        hits == {i \in 1..Len(patterns) :
                    AnyPatternMatches(patterns[i].patterns, text_to_check)}
    IN  IF hits = {} THEN None
        ELSE Some(patterns[CHOOSE i \in hits : \A j \in hits : i <= j].category)

\* ReceiptProcessor._validate_receipt_total: the total it leaves in the draft
_validate_receipt_total(receipt_data) ==
    IF ~TruthyFloat(receipt_data.receipt_total)
    THEN [receipt_data EXCEPT
              !.receipt_total = Some(SumAmounts(receipt_data.transactions))]
    ELSE receipt_data

\* the logger.warning of _validate_receipt_total:
\* abs(transaction_sum - receipt_total) > receipt_total * 0.01
ReconciliationWarning(receipt_data) ==
    /\ TruthyFloat(receipt_data.receipt_total)
    /\ LET total == Get(receipt_data.receipt_total)
           diff  == SumAmounts(receipt_data.transactions) - total
           abs   == IF diff < 0 THEN 0 - diff ELSE diff
       IN  100 * abs > total

\* the date loop of _enhance_results
BackfillDate(t, receipt_date) ==
    IF TruthyText(receipt_date) /\ (~TruthyText(t.date) \/ t.date = Some("null"))
    THEN [t EXCEPT !.date = receipt_date]
    ELSE t

\* the category loop of _enhance_results
SuggestFor(t, merchant_name, patterns) ==
    IF ~TruthyStr(t.category) \/ t.category = Some(Miscellaneous)
    THEN LET suggested_category ==
                 _suggest_category(t.description, merchant_name, patterns)
         IN  IF TruthyStr(suggested_category)
             THEN [t EXCEPT !.category = suggested_category]
             ELSE t
    ELSE t

\* ReceiptProcessor._enhance_results
_enhance_results(receipt_data, patterns) ==
    _validate_receipt_total(
        [receipt_data EXCEPT !.transactions =
            [i \in 1..Len(receipt_data.transactions) |->
                SuggestFor(BackfillDate(receipt_data.transactions[i],
                                        receipt_data.receipt_date),
                           receipt_data.merchant_name, patterns)]])

\* str(e)[:50]
Truncate50(msg) == SubSeq(msg, 1, IF Len(msg) < 50 THEN Len(msg) ELSE 50)

\* a fallback draft that drops the line-item list
EmptyFallback(msg) ==
    [merchant_name |-> None,
     receipt_date  |-> Some(Today),
     receipt_total |-> None,
     transactions  |-> << >>]

\* the ReceiptData returned by _parse_receipt_text when the last attempt fails
FallbackReceiptData(msg) ==
    [merchant_name |-> None,
     receipt_date  |-> Some(Today),
     receipt_total |-> None,
     transactions  |->
        << Transaction([description |-> ParsingFailedPrefix \o Truncate50(msg) \o Ellipsis,
                        amount      |-> 0,
                        date        |-> Some(Today),
                        category    |-> Some(Miscellaneous)]) >>]

\* range(max_retries) in _parse_receipt_text
max_retries == 3

\* a backoff that grows by a fixed step from no wait at all
LinearBackoff(attempt) == 2 * attempt

\* the seconds of asyncio.sleep(2 ** attempt)
Backoff(attempt) == 2 ^ attempt

\* ------------------------------------------------- inputs of the environment
\* file extensions offered to the upload endpoints; the last is rejected
Extensions        == {".pdf", ".txt"}
AllowedExtensions == {".pdf", ".jpg", ".jpeg", ".png"}

\* magic.from_buffer(content, mime=True)
MimeTypes      == {"application/pdf", "text/plain"}
PdfMimeTypes   == {"application/pdf"}
ImageMimeTypes == {"image/png", "image/jpeg"}

\* str(e) of an exception raised by pdfplumber / PIL / pytesseract; an
\* exception built without arguments has the empty text
ExtractionErrors == {"cannot identify image file", ""}

UnsupportedFileType == "Unsupported file type"

\* str(e) of a failed chain.ainvoke (transport or schema error)
RequestTimedOut ==
    <<"R","e","q","u","e","s","t"," ","t","i","m","e","d"," ","o","u","t">>
InvalidJsonOutput ==
    <<"I","n","v","a","l","i","d"," ","j","s","o","n"," ","o","u","t",
      "p","u","t",":"," ","t","h","e"," ","a","n","s","w","e","r"," ",
      "o","f"," ","t","h","e"," ","m","o","d","e","l"," ","i","s"," ",
      "p","r","o","s","e",","," ","n","o","t"," ","J","S","O","N">>
ChainErrors == {RequestTimedOut, InvalidJsonOutput}

\* answers of the completion service, as the JSON the prompt asks for
JsonUber ==
    [merchant_name |-> Some(<<"U","b","e","r">>),
     receipt_date  |-> Some("2024-01-05"),
     receipt_total |-> None,
     transactions  |-> << [description |-> <<"r","i","d","e"," ","h","o","m","e">>,
                           amount |-> 1250, date |-> None, category |-> None] >>]

JsonNullDate ==
    [merchant_name |-> None,
     receipt_date  |-> None,
     receipt_total |-> Some(900),
     transactions  |-> << [description |-> <<"L","u","n","c","h"," ","m","e","n","u">>,
                           amount |-> 900, date |-> Some("null"),
                           category |-> Some(<<"F","o","o","d">>)] >>]

ChainResults == {JsonUber, JsonNullDate}

\* --------------------------------------------------------------------- state
VARIABLES
    receipts,                 \* table receipts: id -> row
    nextReceiptId,            \* next primary key of receipts
    transactions,             \* table extracted_transactions: id -> row
    nextTransactionId,        \* next primary key of extracted_transactions
    processing_status_store,  \* routers/receipts.py: receipt id -> status info
    processing_history,       \* receipt_processor.py: <<user id, receipt id>> -> draft
    category_patterns,        \* ReceiptProcessor.category_patterns
    tasks,                    \* background tasks not yet finished: task id -> frame
    nextTaskId,               \* number of the next background task
    resp,                     \* the response of the call that just returned
    parsed,                   \* what the _parse_receipt_text call that just returned did
    expenses,                 \* table expenses: id -> row
    nextExpenseId,            \* next primary key of expenses
    user_feedback_store,      \* receipt_processor.py: feedback id -> feedback dict
    running,                  \* calls standing inside synchronous code (no await)
    draft,                    \* the ReceiptData object a caller of _enhance_results holds
    returned,                 \* what the last _enhance_results call returned
    warned,                   \* the last _enhance_results call logged a warning
    insights_cache            \* lru_cache of get_merchant_insights: arguments -> result

vars == <<receipts, nextReceiptId, transactions, nextTransactionId,
          processing_status_store, processing_history, category_patterns,
          tasks, nextTaskId, resp, parsed, expenses, nextExpenseId,
          user_feedback_store, running, draft, returned, warned, insights_cache>>

\* the state of the ledger's expenses, of the feedback store and of the calls in
\* synchronous code, which the upload and processing operations leave alone
others == <<expenses, nextExpenseId, user_feedback_store, running,
            draft, returned, warned, insights_cache>>

\* the state of the processor's functions called outside the pipeline
functions == <<draft, returned, warned, insights_cache>>

\* status values of the Receipt.status column comment
StatusValues   == {"pending", "processing", "completed", "failed"}
TerminalStatus == {"completed", "failed"}

NoResponse ==
    [op |-> "none", code |-> 0, receipt_id |-> None, status |-> None,
     progress |-> None, message |-> None, processed |-> None]

Response(op, code, receipt_id, status, progress, message, processed) ==
    [op |-> op, code |-> code, receipt_id |-> receipt_id, status |-> status,
     progress |-> progress, message |-> message, processed |-> processed]

\* HTTPException(status_code=code)
HttpError(op, code) == Response(op, code, None, None, None, None, None)

\* no _parse_receipt_text call has just returned
NoParse ==
    [invocations |-> 0, slept |-> << >>, answer |-> None, error |-> None,
     result |-> None]

\* the return of _parse_receipt_text: the number of chain.ainvoke calls it made,
\* the seconds of each asyncio.sleep, the answer or the exception text of the
\* last chain.ainvoke, and the ReceiptData returned
ParseReturn(invocations, slept, answer, error, result) ==
    [invocations |-> invocations, slept |-> slept, answer |-> answer,
     error |-> error, result |-> Some(result)]

\* handlers that run beside one another, as `def` handlers on the thread pool do
ThreadPool == TRUE

\* every handler of the router is `async def` and calls the store and the
\* processor without await: a call runs on the event loop from one await to the
\* next, so no handler or task step starts while a call stands inside
\* synchronous code
EventLoopIdle == running = {}

Init ==
    /\ receipts = << >>
    /\ nextReceiptId = 1
    /\ transactions = << >>
    /\ nextTransactionId = 1
    /\ processing_status_store = << >>
    /\ processing_history = << >>
    /\ category_patterns = DefaultCategoryPatterns
    /\ tasks = << >>
    /\ nextTaskId = 1
    /\ resp = NoResponse
    /\ parsed = NoParse
    /\ expenses = << >>
    /\ nextExpenseId = 1
    /\ user_feedback_store = << >>
    /\ running = {}
    /\ draft = None
    /\ returned = None
    /\ warned = FALSE
    /\ insights_cache = << >>

\* ----------------------------------------------------------- crud_receipts.py
\* the row built by create_receipt
NewReceipt(user_id, status, progress) ==
    [user_id       |-> user_id,
     merchant_name |-> None,
     receipt_date  |-> None,
     receipt_total |-> None,
     processed     |-> FALSE,
     verified      |-> FALSE,
     status        |-> status,
     progress      |-> progress,
     error_message |-> None]

\* crud_receipts.get_receipt: the id if the row exists and is the user's
get_receipt(rs, receipt_id, user_id) ==
    IF receipt_id \in DOMAIN rs /\ rs[receipt_id].user_id = user_id
    THEN Some(receipt_id) ELSE None

\* create_receipt(db, user_id, filename, file_path) with the default
\* status="pending", progress=0.0
CreateReceipt(u) ==
    /\ EventLoopIdle
    /\ nextReceiptId <= MaxReceipts
    /\ receipts' = (nextReceiptId :> NewReceipt(u, "pending", 0)) @@ receipts
    /\ nextReceiptId' = nextReceiptId + 1
    /\ resp' = NoResponse
    /\ UNCHANGED <<transactions, nextTransactionId, processing_status_store,
                   processing_history, category_patterns, tasks, nextTaskId>>
    /\ parsed' = NoParse
    /\ UNCHANGED others

\* crud_receipts.update_receipt_status
UpdateReceiptStatus(r, status, progress, error_message) ==
    /\ EventLoopIdle
    /\ r \in DOMAIN receipts
    /\ receipts' = [receipts EXCEPT ![r] =
          [@ EXCEPT !.status = status,
                    !.progress = IF progress # None THEN Get(progress) ELSE @,
                    !.error_message = IF error_message # None THEN error_message ELSE @,
                    !.processed = IF status = "completed" THEN TRUE ELSE @]]
    /\ resp' = NoResponse
    /\ UNCHANGED <<nextReceiptId, transactions, nextTransactionId,
                   processing_status_store, processing_history,
                   category_patterns, tasks, nextTaskId>>
    /\ parsed' = NoParse
    /\ UNCHANGED others

\* crud_receipts.delete_receipt behind DELETE /receipts/{receipt_id}
DeleteReceipt(r, u) ==
    /\ EventLoopIdle
    /\ r \in ReceiptIds
    /\ IF get_receipt(receipts, r, u) # None
       THEN /\ receipts' = [x \in DOMAIN receipts \ {r} |-> receipts[x]]
            /\ transactions' =
                  [x \in {y \in DOMAIN transactions : transactions[y].receipt_id # r}
                       |-> transactions[x]]
            /\ resp' = Response("delete_receipt", 200, None, None, None, None, None)
       ELSE /\ resp' = HttpError("delete_receipt", 404)
            /\ UNCHANGED <<receipts, transactions>>
    /\ UNCHANGED <<nextReceiptId, nextTransactionId, processing_status_store,
                   processing_history, category_patterns, tasks, nextTaskId>>
    /\ parsed' = NoParse
    /\ UNCHANGED others

\* ------------------------------------------------------- receipt_processor.py
\* ReceiptProcessor._update_receipt_status: the receipts table it leaves
_update_receipt_status(rs, receipt_id, status, error_message) ==
    IF receipt_id \in DOMAIN rs
    THEN [rs EXCEPT ![receipt_id] =
            [@ EXCEPT !.status = status,
                      !.error_message =
                          IF TruthyText(error_message) THEN error_message ELSE @]]
    ELSE rs

\* the first commit of _update_receipt_with_data: merchant, date, total and
\* processed=True on the receipt row
ReceiptWithData(row, receipt_data) ==
    [row EXCEPT
        !.merchant_name = IF TruthyStr(receipt_data.merchant_name)
                          THEN receipt_data.merchant_name ELSE @,
        !.receipt_date  = IF /\ TruthyText(receipt_data.receipt_date)
                             /\ StrptimeOk(Get(receipt_data.receipt_date))
                          THEN Some(Strptime(Get(receipt_data.receipt_date))) ELSE @,
        !.receipt_total = IF TruthyFloat(receipt_data.receipt_total)
                          THEN receipt_data.receipt_total ELSE @,
        !.processed     = TRUE]

\* ExtractedTransaction(receipt_id=..., description=..., amount=..., date=...,
\* category=...) with the column defaults of models.ExtractedTransaction
NewExtractedTransaction(receipt_id, t) ==
    [receipt_id         |-> receipt_id,
     description        |-> Some(t.description),
     amount             |-> Some(t.amount),
     date               |-> IF TruthyText(t.date) THEN Some(Strptime(Get(t.date))) ELSE None,
     category           |-> t.category,
     verified           |-> FALSE,
     user_verified      |-> FALSE,
     added_to_expenses  |-> FALSE,
     expense_id         |-> None,
     correction_history |-> << >>]

\* the second half of _update_receipt_with_data succeeds: strptime raises on
\* no transaction date, so the loop reaches the final commit
TransactionsPersistable(receipt_data) ==
    \A i \in 1..Len(receipt_data.transactions) :
        LET t == receipt_data.transactions[i]
        IN  TruthyText(t.date) => StrptimeOk(Get(t.date))

\* the extracted_transactions table after _update_receipt_with_data; an
\* exception in the loop rolls every added row back
TransactionsWithData(txs, firstId, rs, receipt_id, receipt_data) ==
    IF receipt_id \in DOMAIN rs /\ TransactionsPersistable(receipt_data)
    THEN [i \in firstId..(firstId + Len(receipt_data.transactions) - 1) |->
             NewExtractedTransaction(receipt_id,
                                     receipt_data.transactions[i - firstId + 1])]
         @@ txs
    ELSE txs

\* ReceiptProcessor._update_receipt_with_data: the receipts table it leaves
_update_receipt_with_data(rs, receipt_id, receipt_data) ==
    IF receipt_id \in DOMAIN rs
    THEN [rs EXCEPT ![receipt_id] = ReceiptWithData(@, receipt_data)]
    ELSE rs

\* a background task added by process_receipt: the arguments of
\* _background_process_receipt, where the coroutine stands, and the local
\* category_patterns_str of its _parse_receipt_text call (the table as
\* json.dumps wrote it out, None before the call)
NewTask(receipt_id, user_id, mime_type) ==
    [pc |-> "scheduled", receipt_id |-> receipt_id, user_id |-> user_id,
     mime_type |-> mime_type, attempt |-> 0, slept |-> << >>,
     category_patterns_str |-> None]

\* the task table without a task that returned or raised
Finished(t) == [x \in DOMAIN tasks \ {t} |-> tasks[x]]

\* ReceiptProcessor.process_receipt(file, background_tasks, user_id, db,
\* receipt_id): the asynchronous branch, called for an existing receipt with
\* its owner's id
ProcessReceipt(r, mime, readOk) ==
    /\ EventLoopIdle
    /\ r \in DOMAIN receipts
    /\ nextTaskId <= MaxTasks
    /\ IF readOk
       THEN /\ receipts' = _update_receipt_status(receipts, r, "processing", None)
            /\ tasks' = (nextTaskId :> NewTask(r, receipts[r].user_id, mime)) @@ tasks
            /\ nextTaskId' = nextTaskId + 1
            /\ resp' = NoResponse
       ELSE /\ resp' = Response("process_receipt", 200, Some(r), Some("error"),
                                None, None, None)
            /\ UNCHANGED <<receipts, tasks, nextTaskId>>
    /\ UNCHANGED <<nextReceiptId, transactions, nextTransactionId,
                   processing_status_store, processing_history, category_patterns>>
    /\ parsed' = NoParse
    /\ UNCHANGED others

\* the except branch of _background_process_receipt
BackgroundFailed(t, e) ==
    /\ receipts' = _update_receipt_status(receipts, tasks[t].receipt_id, "error", Some(e))
    /\ tasks' = Finished(t)
    /\ UNCHANGED <<transactions, nextTransactionId, processing_history>>

\* _background_process_receipt from the return of _process_receipt_content on
\* (no await left): processing_history, _update_receipt_with_data, then
\* _update_receipt_status(db, receipt_id, "completed")
BackgroundCompleted(t, receipt_data) ==
    LET r == tasks[t].receipt_id
    IN  /\ processing_history' =
              (<<tasks[t].user_id, r>> :> receipt_data) @@ processing_history
        /\ receipts' = _update_receipt_status(
                           _update_receipt_with_data(receipts, r, receipt_data),
                           r, "completed", None)
        /\ transactions' = TransactionsWithData(transactions, nextTransactionId,
                                                receipts, r, receipt_data)
        /\ nextTransactionId' =
              IF r \in DOMAIN receipts /\ TransactionsPersistable(receipt_data)
              THEN nextTransactionId + Len(receipt_data.transactions)
              ELSE nextTransactionId
        /\ tasks' = Finished(t)

\* _background_process_receipt up to the first await of _parse_receipt_text:
\* _process_receipt_content picks the extractor by mime type and runs it
BackgroundStart(t) ==
    /\ EventLoopIdle
    /\ t \in DOMAIN tasks
    /\ tasks[t].pc = "scheduled"
    /\ \/ /\ tasks[t].mime_type \in PdfMimeTypes \cup ImageMimeTypes
          /\ tasks' = [tasks EXCEPT ![t].pc = "ainvoke",
                                    ![t].category_patterns_str =
                                        Some(category_patterns)]
          /\ UNCHANGED <<receipts, transactions, nextTransactionId, processing_history>>
       \/ /\ tasks[t].mime_type \in PdfMimeTypes \cup ImageMimeTypes
          /\ \E e \in ExtractionErrors : BackgroundFailed(t, e)
       \/ /\ tasks[t].mime_type \notin PdfMimeTypes \cup ImageMimeTypes
          /\ BackgroundFailed(t, UnsupportedFileType)
    /\ resp' = NoResponse
    /\ UNCHANGED <<nextReceiptId, processing_status_store, category_patterns, nextTaskId>>
    /\ parsed' = NoParse
    /\ UNCHANGED others

\* one attempt of the retry loop of _parse_receipt_text resumes from
\* chain.ainvoke: with an answer (enhanced and returned) or with an exception
\* (back off, or after the last attempt return the fallback draft)
BackgroundAinvokeReturns(t) ==
    /\ EventLoopIdle
    /\ t \in DOMAIN tasks
    /\ tasks[t].pc = "ainvoke"
    /\ \/ \E json \in ChainResults :
             LET enhanced_result ==
                     _enhance_results(ReceiptData(json), category_patterns)
             IN  /\ BackgroundCompleted(t, enhanced_result)
                 /\ parsed' = ParseReturn(tasks[t].attempt + 1, tasks[t].slept,
                                          Some(json), None, enhanced_result)
       \/ /\ tasks[t].attempt < max_retries - 1
          /\ tasks' = [tasks EXCEPT ![t].pc = "sleep",
                                    ![t].slept = Append(@, Backoff(tasks[t].attempt))]
          /\ parsed' = NoParse
          /\ UNCHANGED <<receipts, transactions, nextTransactionId, processing_history>>
       \/ /\ ~(tasks[t].attempt < max_retries - 1)
          /\ \E e \in ChainErrors :
                /\ BackgroundCompleted(t, FallbackReceiptData(e))
                /\ parsed' = ParseReturn(tasks[t].attempt + 1, tasks[t].slept,
                                         None, Some(e), FallbackReceiptData(e))
    /\ resp' = NoResponse
    /\ UNCHANGED <<nextReceiptId, processing_status_store, category_patterns, nextTaskId>>
    /\ UNCHANGED others

\* asyncio.sleep(2 ** attempt) returns and the loop starts the next attempt
BackgroundWakes(t) ==
    /\ EventLoopIdle
    /\ t \in DOMAIN tasks
    /\ tasks[t].pc = "sleep"
    /\ tasks' = [tasks EXCEPT ![t].pc = "ainvoke", ![t].attempt = @ + 1]
    /\ resp' = NoResponse
    /\ UNCHANGED <<receipts, nextReceiptId, transactions, nextTransactionId,
                   processing_status_store, processing_history, category_patterns,
                   nextTaskId>>
    /\ parsed' = NoParse
    /\ UNCHANGED others

\* --------------------------------------------------------- routers/receipts.py
\* POST /receipts/ (upload_receipt).  process_receipt(file) returns a dict on
\* every path (its own except included), so receipt_data.merchant_name in the
\* argument list of create_receipt raises AttributeError before any row is
\* created; the handler's except removes the file and answers 500.
UploadReceipt(u, ext) ==
    /\ EventLoopIdle
    /\ resp' = IF ext \notin AllowedExtensions
               THEN HttpError("upload_receipt", 400)
               ELSE HttpError("upload_receipt", 500)
    /\ UNCHANGED <<receipts, nextReceiptId, transactions, nextTransactionId,
                   processing_status_store, processing_history,
                   category_patterns, tasks, nextTaskId>>
    /\ parsed' = NoParse
    /\ UNCHANGED others

\* the entry upload_receipt_async puts into processing_status_store
InitialStatusInfo ==
    [status |-> "processing", progress |-> 0,
     message |-> <<"Receipt uploaded, queued for processing">>]

\* POST /receipts/async (upload_receipt_async).  The row is committed with
\* status="processing" and the memory store is set; then the argument
\* receipt_processor.process_receipt_background raises AttributeError
\* (ReceiptProcessor has no such attribute), nothing is scheduled, and the
\* handler's except answers 500.
UploadReceiptAsync(u, ext, readOk) ==
    /\ EventLoopIdle
    /\ \/ /\ ext \notin AllowedExtensions
          /\ resp' = HttpError("upload_receipt_async", 400)
          /\ UNCHANGED <<receipts, nextReceiptId, processing_status_store>>
       \/ /\ ext \in AllowedExtensions
          /\ ~readOk
          /\ resp' = HttpError("upload_receipt_async", 500)
          /\ UNCHANGED <<receipts, nextReceiptId, processing_status_store>>
       \/ /\ ext \in AllowedExtensions
          /\ readOk
          /\ nextReceiptId <= MaxReceipts
          /\ receipts' = (nextReceiptId :> NewReceipt(u, "processing", 0)) @@ receipts
          /\ nextReceiptId' = nextReceiptId + 1
          /\ processing_status_store' =
                (nextReceiptId :> InitialStatusInfo) @@ processing_status_store
          /\ resp' = Response("upload_receipt_async", 500, Some(nextReceiptId),
                              None, None, None, None)
    /\ UNCHANGED <<transactions, nextTransactionId, processing_history,
                   category_patterns, tasks, nextTaskId>>
    /\ parsed' = NoParse
    /\ UNCHANGED others

\* the ProcessingStatus get_processing_status builds from the database row:
\* progress is `receipt.progress or 1.0 if receipt.processed else 0.0`
StatusFromRow(receipt_id, row) ==
    Response("get_processing_status", 200, Some(receipt_id),
             Some(row.status),
             Some(IF row.processed
                  THEN (IF row.progress # 0 THEN row.progress ELSE 100)
                  ELSE 0),
             Some(IF TruthyText(row.error_message)
                  THEN <<Get(row.error_message)>>
                  ELSE <<"Processing", row.status>>),
             None)

\* the ProcessingStatus get_processing_status builds from the memory store
StatusFromStore(receipt_id, status_info) ==
    Response("get_processing_status", 200, Some(receipt_id),
             Some(status_info.status), Some(status_info.progress),
             Some(status_info.message), None)

\* GET /receipts/status/{receipt_id} (get_processing_status)
GetProcessingStatus(r, u) ==
    /\ EventLoopIdle
    /\ r \in ReceiptIds
    /\ resp' = IF get_receipt(receipts, r, u) = None
               THEN HttpError("get_processing_status", 404)
               ELSE IF r \in DOMAIN processing_status_store
                    THEN StatusFromStore(r, processing_status_store[r])
                    ELSE StatusFromRow(r, receipts[r])
    /\ UNCHANGED <<receipts, nextReceiptId, transactions, nextTransactionId,
                   processing_status_store, processing_history,
                   category_patterns, tasks, nextTaskId>>
    /\ parsed' = NoParse
    /\ UNCHANGED others

\* ------------------------------------------- transactions and ledger expenses
\* bound on the rows of the expenses table
MaxExpenses == 2

\* the response of an operation on one extracted transaction
TransactionResponse(op, code, user_id, transaction_id, expense_id) ==
    [op |-> op, code |-> code, user_id |-> user_id,
     transaction_id |-> transaction_id, expense_id |-> expense_id]

\* Expense(amount=..., description=..., date=..., category=..., user_id=...)
\* built by add_transaction_to_expenses; source is the transaction whose fields
\* the row was built from (no column of the table)
NewExpense(user_id, transaction_id, db_transaction) ==
    [amount      |-> db_transaction.amount,
     description |-> db_transaction.description,
     date        |-> db_transaction.date,
     category    |-> db_transaction.category,
     user_id     |-> user_id,
     source      |-> transaction_id]

\* a check of add_transaction_to_expenses that looks at the row and its owner
\* only, not at added_to_expenses
ReturnsNoneIgnoringFlag(x, u) ==
    \/ x \notin DOMAIN transactions
    \/ get_receipt(receipts, transactions[x].receipt_id, u) = None

\* the two `return None` of crud_receipts.add_transaction_to_expenses
ReturnsNone(x, u) ==
    \/ x \notin DOMAIN transactions
    \/ transactions[x].added_to_expenses
    \/ get_receipt(receipts, transactions[x].receipt_id, u) = None

\* POST /receipts/transactions/{id}/add-to-expenses, up to the first commit of
\* crud_receipts.add_transaction_to_expenses: the checks, then the Expense row
\* is added and committed
AddTransactionToExpenses(x, u) ==
    /\ EventLoopIdle
    /\ IF ReturnsNone(x, u)
       THEN /\ resp' = TransactionResponse("add_transaction_to_expenses", 400,
                                           u, x, None)
            /\ UNCHANGED <<expenses, nextExpenseId, running>>
       ELSE /\ nextExpenseId <= MaxExpenses
            /\ expenses' =
                  (nextExpenseId :> NewExpense(u, x, transactions[x])) @@ expenses
            /\ nextExpenseId' = nextExpenseId + 1
            /\ running' = running \cup
                  {[op |-> "add_transaction_to_expenses", user_id |-> u,
                    transaction_id |-> x, expense_id |-> nextExpenseId]}
            /\ resp' = NoResponse
    /\ parsed' = NoParse
    /\ UNCHANGED <<receipts, nextReceiptId, transactions, nextTransactionId,
                   processing_status_store, processing_history,
                   category_patterns, tasks, nextTaskId, user_feedback_store>>
    /\ UNCHANGED functions

\* the second commit of crud_receipts.add_transaction_to_expenses and the
\* handler's answer: the transaction is marked and linked to the expense
AddTransactionToExpensesCommits(f) ==
    /\ f \in running
    /\ f.op = "add_transaction_to_expenses"
    /\ running' = running \ {f}
    /\ IF f.transaction_id \in DOMAIN transactions
       THEN /\ transactions' = [transactions EXCEPT ![f.transaction_id] =
                  [@ EXCEPT !.added_to_expenses = TRUE,
                            !.expense_id = Some(f.expense_id)]]
            /\ resp' = TransactionResponse("add_transaction_to_expenses", 200,
                                           f.user_id, f.transaction_id,
                                           Some(f.expense_id))
       ELSE /\ resp' = TransactionResponse("add_transaction_to_expenses", 500,
                                           f.user_id, f.transaction_id, None)
            /\ UNCHANGED transactions
    /\ parsed' = NoParse
    /\ UNCHANGED <<receipts, nextReceiptId, nextTransactionId,
                   processing_status_store, processing_history, category_patterns,
                   tasks, nextTaskId, expenses, nextExpenseId, user_feedback_store>>
    /\ UNCHANGED functions

\* the Form fields of PUT /receipts/transactions/{id}
Food   == <<"F","o","o","d">>
Travel == <<"T","r","a","v","e","l">>
FormCategory ==
    [description |-> None, amount |-> Some(999), date |-> None,
     category |-> Some(Food), verified |-> None]
FormBadDate ==
    [description |-> None, amount |-> None, date |-> Some("null"),
     category |-> None, verified |-> Some(TRUE)]
Forms == {FormCategory, FormBadDate}

\* update_data of update_transaction: the fields that are not None, with the
\* value the column is set to
UpdateData(form) ==
    [k \in {key \in {"description", "amount", "date", "category", "verified"} :
                form[key] # None} |->
        CASE k = "date"     -> Some(Strptime(Get(form.date)))
          [] k = "verified" -> Get(form.verified)
          [] OTHER          -> form[k]]

\* crud_receipts.update_extracted_transaction: setattr for every item of kwargs
update_extracted_transaction(txs, transaction_id, kwargs) ==
    [txs EXCEPT ![transaction_id] =
        [k \in DOMAIN @ |-> IF k \in DOMAIN kwargs THEN kwargs[k] ELSE @[k]]]

\* PUT /receipts/transactions/{transaction_id} (update_transaction): strptime
\* on the date field may raise (500); the row is looked up by id alone
UpdateTransaction(x, u, form) ==
    /\ EventLoopIdle
    /\ IF form.date # None /\ ~StrptimeOk(Get(form.date))
       THEN /\ resp' = TransactionResponse("update_transaction", 500, u, x, None)
            /\ UNCHANGED transactions
       ELSE IF x \notin DOMAIN transactions
       THEN /\ resp' = TransactionResponse("update_transaction", 404, u, x, None)
            /\ UNCHANGED transactions
       ELSE /\ transactions' =
                  update_extracted_transaction(transactions, x, UpdateData(form))
            /\ resp' = TransactionResponse("update_transaction", 200, u, x, None)
    /\ parsed' = NoParse
    /\ UNCHANGED <<receipts, nextReceiptId, nextTransactionId,
                   processing_status_store, processing_history, category_patterns,
                   tasks, nextTaskId>>
    /\ UNCHANGED others

\* ----------------------------------------------------------------- feedback
\* str.split(): the maximal runs of non-blank characters of s from position i
\* on, cur being the run read so far
RECURSIVE SplitFrom(_, _, _)
SplitFrom(s, i, cur) ==
    IF i > Len(s)
    THEN (IF cur = << >> THEN << >> ELSE <<cur>>)
    ELSE IF s[i] = " "
         THEN (IF cur = << >> THEN << >> ELSE <<cur>>) \o SplitFrom(s, i + 1, << >>)
         ELSE SplitFrom(s, i + 1, Append(cur, s[i]))

Split(s) == SplitFrom(s, 1, << >>)

\* seq[:n]
FirstN(seq, n) == SubSeq(seq, 1, IF Len(seq) < n THEN Len(seq) ELSE n)

\* [w.lower() for w in description.split() if len(w) > 3]
Words(description) ==
    LET long == SelectSeq(Split(description), LAMBDA w : Len(w) > 3)
    IN  [i \in 1..Len(long) |-> Lower(long[i])]

\* `category in self.category_patterns`
HasCategory(table, category) ==
    \E i \in 1..Len(table) : table[i].category = category

\* an append that does not look whether the word is in the list
AppendAlways(table, category, word) ==
    [i \in 1..Len(table) |->
        IF table[i].category = category
        THEN [table[i] EXCEPT !.patterns = Append(@, word)]
        ELSE table[i]]

\* one pass of the loop of _update_category_patterns:
\* if word not in self.category_patterns[category]: ...append(word)
AppendWord(table, category, word) ==
    [i \in 1..Len(table) |->
        IF /\ table[i].category = category
           /\ \A j \in 1..Len(table[i].patterns) : table[i].patterns[j] # word
        THEN [table[i] EXCEPT !.patterns = Append(@, word)]
        ELSE table[i]]

\* self.category_patterns[category] = words[:3] for a category not in the table
NewCategory(table, category, words) ==
    Append(table, [category |-> category, patterns |-> FirstN(words, 3)])

\* ReceiptProcessor._update_category_patterns(description, category): the
\* table it leaves in self.category_patterns
_update_category_patterns(table, description, category) ==
    LET words == Words(description)
        first == FirstN(words, 2)
    IN  IF HasCategory(table, category)
        THEN IF Len(first) = 0 THEN table
             ELSE IF Len(first) = 1 THEN AppendWord(table, category, first[1])
             ELSE AppendWord(AppendWord(table, category, first[1]),
                             category, first[2])
        ELSE NewCategory(table, category, words)

\* record_user_feedback reaches _update_category_patterns: correct_category
\* and description are keys of the dict with non-empty values
UpdatesCategoryPatterns(feedback) ==
    /\ "correct_category" \in DOMAIN feedback
    /\ TruthyStr(feedback.correct_category)
    /\ "description" \in DOMAIN feedback
    /\ TruthyStr(feedback.description)

\* a date object, and a str, as the value of a date field of a feedback dict
DateObject(ymd) == [type |-> "date", value |-> ymd]
DateText(text)  == [type |-> "str", value |-> text]

\* datetime.strptime(v, "%Y-%m-%d") returns: v is a str (TypeError otherwise,
\* also for None) in the format (ValueError otherwise)
StrptimeReturns(v) ==
    /\ v # None
    /\ Get(v).type = "str"
    /\ StrptimeOk(Get(v).value)

\* ReceiptProcessor._update_transaction_with_feedback: the table it leaves.
\* A key of the dict is used whatever its value; an exception (strptime) is
\* logged and the session rolled back.
_update_transaction_with_feedback(txs, transaction_id, feedback) ==
    IF transaction_id \notin DOMAIN txs
    THEN txs
    ELSE IF "correct_date" \in DOMAIN feedback
            /\ ~StrptimeReturns(feedback.correct_date)
    THEN txs
    ELSE [txs EXCEPT ![transaction_id] =
            [@ EXCEPT
                !.description = IF "correct_description" \in DOMAIN feedback
                                THEN feedback.correct_description ELSE @,
                !.amount      = IF "correct_amount" \in DOMAIN feedback
                                THEN feedback.correct_amount ELSE @,
                !.date        = IF "correct_date" \in DOMAIN feedback
                                THEN Some(Strptime(Get(feedback.correct_date).value))
                                ELSE @,
                !.category    = IF "correct_category" \in DOMAIN feedback
                                THEN feedback.correct_category ELSE @,
                !.user_verified = TRUE]]

\* the end of record_user_feedback: the database update and the answer
FeedbackRecorded(op, u, x, feedback) ==
    /\ transactions' = _update_transaction_with_feedback(transactions, x, feedback)
    /\ resp' = TransactionResponse(op, 200, u, x, None)

\* ReceiptProcessor.record_user_feedback(receipt_id, transaction_id, feedback,
\* db, user_id) on behalf of operation op, up to the first append of
\* _update_category_patterns; the call stays in `running` while a second word
\* is left to append
record_user_feedback(op, u, r, x, feedback) ==
    /\ user_feedback_store' =
          [k \in DOMAIN user_feedback_store \cup {<<u, r, x>>} |->
              IF k = <<u, r, x>> THEN feedback ELSE user_feedback_store[k]]
    /\ IF ~UpdatesCategoryPatterns(feedback)
       THEN /\ FeedbackRecorded(op, u, x, feedback)
            /\ UNCHANGED <<category_patterns, running>>
       ELSE LET category == Get(feedback.correct_category)
                words    == Words(Get(feedback.description))
            IN  IF ~HasCategory(category_patterns, category)
                THEN /\ category_patterns' =
                           NewCategory(category_patterns, category, words)
                     /\ FeedbackRecorded(op, u, x, feedback)
                     /\ UNCHANGED running
                ELSE IF Len(FirstN(words, 2)) = 0
                THEN /\ FeedbackRecorded(op, u, x, feedback)
                     /\ UNCHANGED <<category_patterns, running>>
                ELSE /\ category_patterns' =
                           AppendWord(category_patterns, category, words[1])
                     /\ IF Len(FirstN(words, 2)) = 1
                        THEN /\ FeedbackRecorded(op, u, x, feedback)
                             /\ UNCHANGED running
                        ELSE /\ running' = running \cup
                                   {[op |-> "record_user_feedback", for |-> op,
                                     user_id |-> u, transaction_id |-> x,
                                     feedback |-> feedback, category |-> category,
                                     word |-> words[2]]}
                             /\ resp' = NoResponse
                             /\ UNCHANGED transactions
    /\ parsed' = NoParse
    /\ UNCHANGED <<receipts, nextReceiptId, nextTransactionId,
                   processing_status_store, processing_history, tasks, nextTaskId,
                   expenses, nextExpenseId>>
    /\ UNCHANGED functions

\* record_user_feedback from the second append of _update_category_patterns to
\* its return
RecordUserFeedbackResumes(f) ==
    /\ f \in running
    /\ f.op = "record_user_feedback"
    /\ running' = running \ {f}
    /\ category_patterns' = AppendWord(category_patterns, f.category, f.word)
    /\ FeedbackRecorded(f.for, f.user_id, f.transaction_id, f.feedback)
    /\ parsed' = NoParse
    /\ UNCHANGED <<receipts, nextReceiptId, nextTransactionId,
                   processing_status_store, processing_history, tasks, nextTaskId,
                   expenses, nextExpenseId, user_feedback_store>>
    /\ UNCHANGED functions

\* FeedbackModel(...).dict(): every field of the schema is a key
FeedbackModel(correct_description, correct_amount, correct_date, correct_category, notes) ==
    [correct_description |-> correct_description,
     correct_amount      |-> correct_amount,
     correct_date        |-> correct_date,
     correct_category    |-> correct_category,
     notes               |-> notes]

\* bodies of POST /receipts/transaction/{id}/feedback
FeedbackCategory == FeedbackModel(None, None, None, Some(Food), None)
FeedbackDate ==
    FeedbackModel(None, Some(999), Some(DateObject(<<2024, 1, 5>>)), None, None)
Feedbacks == {FeedbackCategory, FeedbackDate}

\* POST /receipts/transaction/{transaction_id}/feedback
\* (submit_transaction_feedback)
SubmitTransactionFeedback(x, u, feedback) ==
    /\ EventLoopIdle
    /\ IF x \notin DOMAIN transactions
       THEN /\ resp' = TransactionResponse("submit_transaction_feedback", 404,
                                           u, x, None)
            /\ parsed' = NoParse
            /\ UNCHANGED <<receipts, nextReceiptId, transactions,
                           nextTransactionId, processing_status_store,
                           processing_history, category_patterns, tasks, nextTaskId>>
            /\ UNCHANGED others
       ELSE IF get_receipt(receipts, transactions[x].receipt_id, u) = None
       THEN /\ resp' = TransactionResponse("submit_transaction_feedback", 403,
                                           u, x, None)
            /\ parsed' = NoParse
            /\ UNCHANGED <<receipts, nextReceiptId, transactions,
                           nextTransactionId, processing_status_store,
                           processing_history, category_patterns, tasks, nextTaskId>>
            /\ UNCHANGED others
       ELSE record_user_feedback("submit_transaction_feedback", u,
                                 transactions[x].receipt_id, x, feedback)

\* dicts a caller of the processor hands record_user_feedback itself: the
\* description of the item and the corrected category
RideHome == <<"r","i","d","e"," ","h","o","m","e">>
Commute  == <<"C","o","m","m","u","t","e">>
DictTravel  == [description |-> Some(RideHome), correct_category |-> Some(Travel)]
DictCommute == [description |-> Some(RideHome), correct_category |-> Some(Commute)]
Dicts == {DictTravel, DictCommute}

\* await receipt_processor.record_user_feedback(receipt_id, transaction_id,
\* feedback, db, user_id) for a transaction of the user
RecordUserFeedback(x, feedback) ==
    /\ EventLoopIdle
    /\ x \in DOMAIN transactions
    /\ transactions[x].receipt_id \in DOMAIN receipts
    /\ record_user_feedback("record_user_feedback",
                            receipts[transactions[x].receipt_id].user_id,
                            transactions[x].receipt_id, x, feedback)

\* ------------------------------------------------------- merchant insights
NoPreviousReceipts == "No previous receipts found for this merchant"

\* the keys of processing_history whose draft has the merchant name
ReceiptsForMerchant(history, merchant_name) ==
    {k \in DOMAIN history : history[k].merchant_name = Some(merchant_name)}

\* the keys of a set, one after the other (by user id, then receipt id)
RECURSIVE KeysInOrder(_)
KeysInOrder(keys) ==
    IF keys = {} THEN << >>
    ELSE LET k == CHOOSE a \in keys :
                     \A b \in keys : a[1] < b[1] \/ (a[1] = b[1] /\ a[2] <= b[2])
         IN  <<k>> \o KeysInOrder(keys \ {k})

\* sum(totals) for the receipt_total values that are truthy
RECURSIVE SumTotals(_, _)
SumTotals(history, ks) ==
    IF ks = << >> THEN 0
    ELSE (IF TruthyFloat(history[Head(ks)].receipt_total)
          THEN Get(history[Head(ks)].receipt_total) ELSE 0)
         + SumTotals(history, Tail(ks))

\* the truthy categories of the transactions of the receipts, in loop order
RECURSIVE CategoriesOf(_, _)
CategoriesOf(history, ks) ==
    IF ks = << >> THEN << >>
    ELSE LET txs  == history[Head(ks)].transactions
             cats == [i \in 1..Len(txs) |-> txs[i].category]
         IN  SelectSeq(cats, TruthyStr) \o CategoriesOf(history, Tail(ks))

\* sorted(categories.items(), key=count, reverse=True)[:3], the names: the
\* categories by falling count, those of equal count in order of first
\* appearance
TopCategories(cats) ==
    LET firsts   == {i \in 1..Len(cats) : \A j \in 1..(i - 1) : cats[j] # cats[i]}
        count(i) == Cardinality({j \in 1..Len(cats) : cats[j] = cats[i]})
        rank(i)  == Cardinality({j \in firsts :
                        count(j) > count(i) \/ (count(j) = count(i) /\ j < i)})
        n        == IF Cardinality(firsts) < 3 THEN Cardinality(firsts) ELSE 3
    IN  [r \in 1..n |-> Get(cats[CHOOSE i \in firsts : rank(i) = r - 1])]

\* the body of ReceiptProcessor.get_merchant_insights
MerchantInsights(history, merchant_name) ==
    LET receipts_for_merchant ==
            KeysInOrder(ReceiptsForMerchant(history, merchant_name))
        totals == SelectSeq(receipts_for_merchant,
                            LAMBDA k : TruthyFloat(history[k].receipt_total))
    IN  IF receipts_for_merchant = << >>
        THEN [message |-> NoPreviousReceipts]
        ELSE [merchant_name  |-> merchant_name,
              receipt_count  |-> Len(receipts_for_merchant),
              average_spend  |-> IF totals # << >>
                                 THEN SumTotals(history, totals) \div Len(totals)
                                 ELSE 0,
              top_categories |->
                  TopCategories(CategoriesOf(history, receipts_for_merchant))]

\* merchant names of POST /receipts/merchant/insights
MerchantNames == {<<"U","b","e","r">>}

\* the answer of get_merchant_insights
InsightsResponse(user_id, merchant_name, insights) ==
    [op |-> "get_merchant_insights", code |-> 200, user_id |-> user_id,
     merchant_name |-> merchant_name, insights |-> insights]

\* POST /receipts/merchant/insights (get_merchant_insights): the processor's
\* method is wrapped in lru_cache(maxsize=100), so its body runs only for
\* arguments that are not in the cache (the model never holds 100 entries)
GetMerchantInsights(merchant_name, u) ==
    /\ EventLoopIdle
    /\ LET key == <<merchant_name, u>>
           insights == IF key \in DOMAIN insights_cache
                       THEN insights_cache[key]
                       ELSE MerchantInsights(processing_history, merchant_name)
       IN  /\ insights_cache' = (key :> insights) @@ insights_cache
           /\ resp' = InsightsResponse(u, merchant_name, insights)
    /\ parsed' = NoParse
    /\ UNCHANGED <<receipts, nextReceiptId, transactions, nextTransactionId,
                   processing_status_store, processing_history, category_patterns,
                   tasks, nextTaskId, expenses, nextExpenseId, user_feedback_store,
                   running, draft, returned, warned>>

\* ---------------------------------- _update_category_patterns, called alone
\* descriptions and categories handed to _update_category_patterns
Descriptions ==
    { RideHome,
      <<"h","o","m","e"," ","r","i","d","e"," ","l","a","t","e">>,
      <<"U","b","e","r"," ","r","i","d","e"," ","h","o","m","e"," ","l","a","t","e">>,
      <<"T","a","x","i"," ","t","a","x","i"," ","c","a","b">>,
      <<"b","u","s">> }
Categories == {Travel, Commute}

\* self._update_category_patterns(original_description, category): no await
\* between its first line and its return
UpdateCategoryPatterns(description, category) ==
    /\ EventLoopIdle
    /\ category_patterns' =
          _update_category_patterns(category_patterns, description, category)
    /\ UNCHANGED <<receipts, nextReceiptId, transactions, nextTransactionId,
                   processing_status_store, processing_history, tasks, nextTaskId,
                   resp, parsed>>
    /\ UNCHANGED others

\* ------------------------------------------- _enhance_results, called alone
\* line items of the answers handed to the enhancement step
ItemRideHome ==
    [description |-> RideHome, amount |-> 10000, date |-> None, category |-> None]
ItemTaxiLunch ==
    [description |-> <<"T","a","x","i"," ","l","u","n","c","h">>, amount |-> 100,
     date |-> Some("null"), category |-> Some(Miscellaneous)]
ItemLunchMenu ==
    [description |-> <<"L","u","n","c","h"," ","m","e","n","u">>, amount |-> 101,
     date |-> Some("2023-12-31"), category |-> Some(Travel)]
ItemWidget ==
    [description |-> <<"w","i","d","g","e","t">>, amount |-> 1,
     date |-> Some("2023-12-31"), category |-> None]
Items == {ItemRideHome, ItemTaxiLunch, ItemLunchMenu, ItemWidget}

\* answers of the completion service with one or two line items
Answers ==
    {[merchant_name |-> m, receipt_date |-> d, receipt_total |-> total,
      transactions |-> txs] :
        m \in {None, Some(<<"U","b","e","r">>)},
        d \in {None, Some("2024-01-05")},
        total \in {None, Some(0), Some(10000)},
        txs \in {<<a>> : a \in Items} \cup {<<a, b>> : a \in Items, b \in Items}}

\* result = await chain.ainvoke(...): the parser's ReceiptData for an answer,
\* held by the caller before the enhancement step
Drafts == {ReceiptData(json) : json \in Answers}

\* enhanced_result = self._enhance_results(result): the loops assign to the
\* fields of the object passed in, _validate_receipt_total assigns its
\* receipt_total or logs the warning, and the same object is returned
EnhanceResults ==
    /\ draft # None
    /\ draft' = Some(_enhance_results(Get(draft), category_patterns))
    /\ returned' = draft'
    /\ warned' = ReconciliationWarning(Get(draft))
    /\ UNCHANGED <<receipts, nextReceiptId, transactions, nextTransactionId,
                   processing_status_store, processing_history, category_patterns,
                   tasks, nextTaskId, resp, parsed, expenses, nextExpenseId,
                   user_feedback_store, running, insights_cache>>

\* ------------------------------------------------------------- specification
Next ==
    \/ \E u \in Users : CreateReceipt(u)
    \/ \E r \in ReceiptIds, u \in Users : DeleteReceipt(r, u)
    \/ \E r \in ReceiptIds, m \in MimeTypes, ok \in BOOLEAN :
          ProcessReceipt(r, m, ok)
    \/ \E t \in 1..MaxTasks : BackgroundStart(t)
    \/ \E t \in 1..MaxTasks : BackgroundAinvokeReturns(t)
    \/ \E t \in 1..MaxTasks : BackgroundWakes(t)
    \/ \E u \in Users, x \in Extensions : UploadReceipt(u, x)
    \/ \E u \in Users, x \in Extensions, ok \in BOOLEAN : UploadReceiptAsync(u, x, ok)
    \/ \E r \in ReceiptIds, u \in Users : GetProcessingStatus(r, u)

Spec == Init /\ [][Next]_vars

\* crud_receipts.update_receipt_status has no caller in the repository; the
\* store's interface with it is the wider specification.  A caller passes one
\* of the four status values, with progress and error_message left at their
\* defaults or, for failed, with the error text.
StatusUpdateArgs ==
    {<<s, None, None>> : s \in {"pending", "processing", "completed"}}
        \cup {<<"failed", None, Some("cannot identify image file")>>}

StoreNext ==
    \/ Next
    \/ \E r \in ReceiptIds, a \in StatusUpdateArgs :
          UpdateReceiptStatus(r, a[1], a[2], a[3])

StoreSpec == Init /\ [][StoreNext]_vars

\* ids a caller may name for a transaction: those of the rows and one of no row
TransactionIdsNamed == DOMAIN transactions \cup {nextTransactionId}

\* the handlers of the router on receipts, transactions and expenses, with the
\* background tasks that create the transactions
LedgerNext ==
    \/ \E u \in Users : CreateReceipt(u)
    \/ \E r \in ReceiptIds, u \in Users : DeleteReceipt(r, u)
    \/ \E r \in ReceiptIds, m \in MimeTypes, ok \in BOOLEAN :
          ProcessReceipt(r, m, ok)
    \/ \E t \in 1..MaxTasks : BackgroundStart(t)
    \/ \E t \in 1..MaxTasks : BackgroundAinvokeReturns(t)
    \/ \E t \in 1..MaxTasks : BackgroundWakes(t)
    \/ \E r \in ReceiptIds, u \in Users : GetProcessingStatus(r, u)
    \/ \E x \in TransactionIdsNamed, u \in Users : AddTransactionToExpenses(x, u)
    \/ \E x \in TransactionIdsNamed, u \in Users, form \in Forms :
          UpdateTransaction(x, u, form)
    \/ \E f \in running : AddTransactionToExpensesCommits(f)

LedgerSpec == Init /\ [][LedgerNext]_vars

\* the feedback handler of the router and the processor's feedback interface,
\* with the background tasks that create the transactions and read the
\* category patterns
FeedbackNext ==
    \/ \E u \in Users : CreateReceipt(u)
    \/ \E r \in ReceiptIds, m \in MimeTypes, ok \in BOOLEAN :
          ProcessReceipt(r, m, ok)
    \/ \E t \in 1..MaxTasks : BackgroundStart(t)
    \/ \E t \in 1..MaxTasks : BackgroundAinvokeReturns(t)
    \/ \E t \in 1..MaxTasks : BackgroundWakes(t)
    \/ \E x \in TransactionIdsNamed, u \in Users, feedback \in Feedbacks :
          SubmitTransactionFeedback(x, u, feedback)
    \/ \E x \in DOMAIN transactions, feedback \in Dicts :
          RecordUserFeedback(x, feedback)
    \/ \E f \in running : RecordUserFeedbackResumes(f)

FeedbackSpec == Init /\ [][FeedbackNext]_vars

\* the insights handler of the router beside the uploads that fill
\* processing_history
InsightNext ==
    \/ \E u \in Users : CreateReceipt(u)
    \/ \E r \in ReceiptIds, m \in MimeTypes, ok \in BOOLEAN :
          ProcessReceipt(r, m, ok)
    \/ \E t \in 1..MaxTasks : BackgroundStart(t)
    \/ \E t \in 1..MaxTasks : BackgroundAinvokeReturns(t)
    \/ \E t \in 1..MaxTasks : BackgroundWakes(t)
    \/ \E m \in MerchantNames, u \in Users : GetMerchantInsights(m, u)

InsightSpec == Init /\ [][InsightNext]_vars

\* the learner of the Category Hint Table applied again and again, from the
\* table of a processor that found no category_patterns.json
HintNext ==
    \E d \in Descriptions, c \in Categories : UpdateCategoryPatterns(d, c)

HintSpec == Init /\ [][HintNext]_vars

\* the enhancement step applied to the drafts the parser can hand it
EnhanceInit ==
    /\ receipts = << >>
    /\ nextReceiptId = 1
    /\ transactions = << >>
    /\ nextTransactionId = 1
    /\ processing_status_store = << >>
    /\ processing_history = << >>
    /\ category_patterns = DefaultCategoryPatterns
    /\ tasks = << >>
    /\ nextTaskId = 1
    /\ resp = NoResponse
    /\ parsed = NoParse
    /\ expenses = << >>
    /\ nextExpenseId = 1
    /\ user_feedback_store = << >>
    /\ running = {}
    /\ draft \in {Some(d) : d \in Drafts}
    /\ returned = None
    /\ warned = FALSE
    /\ insights_cache = << >>

EnhanceNext == EnhanceResults

EnhanceSpec == EnhanceInit /\ [][EnhanceNext]_vars

\* ---------------------------------------------------------------- properties
\* the persisted transactions of receipt r
TransactionsOf(r) == {x \in DOMAIN transactions : transactions[x].receipt_id = r}

\* C1: in every reachable state every Document Job (row of receipts) has a
\* status among pending, processing, completed and failed.
C1_StatusInDomain ==
    \A r \in DOMAIN receipts : receipts[r].status \in StatusValues

\* C2: once the status of a job is completed or failed, no step changes it.
C2_TerminalIsFinal ==
    [][\A r \in DOMAIN receipts :
          (receipts[r].status \in TerminalStatus /\ r \in DOMAIN receipts')
              => receipts'[r].status = receipts[r].status]_vars

\* C3: a job whose status is completed has progress 1.0 (100 percent).
C3_CompletedHasFullProgress ==
    \A r \in DOMAIN receipts :
        receipts[r].status = "completed" => receipts[r].progress = 100

\* C4: a job whose status is completed has at least one Persisted Transaction
\* for its receipt.
C4_CompletedHasTransaction ==
    \A r \in DOMAIN receipts :
        receipts[r].status = "completed" => TransactionsOf(r) # {}

\* a step in which background task t ends in the except branch of
\* _background_process_receipt (a task still "scheduled" can end no other way)
RaisesInExtraction(t) ==
    /\ t \in DOMAIN tasks
    /\ tasks[t].pc = "scheduled"
    /\ t \notin DOMAIN tasks'

\* a step in which background task t ends after persisting failed: the draft it
\* recorded holds a transaction whose date strptime rejects
RaisesInPersistence(t) ==
    /\ t \in DOMAIN tasks
    /\ tasks[t].pc = "ainvoke"
    /\ t \notin DOMAIN tasks'
    /\ ~TransactionsPersistable(
           processing_history'[<<tasks[t].user_id, tasks[t].receipt_id>>])

\* C5: a failure raised at any stage of the background unit of work leaves the
\* job failed, with a non-null error message, and its progress as it was.
C5_FailureLeavesFailed ==
    [][\A t \in DOMAIN tasks :
          ((RaisesInExtraction(t) \/ RaisesInPersistence(t))
              /\ tasks[t].receipt_id \in DOMAIN receipts)
          => LET r == tasks[t].receipt_id
             IN  /\ receipts'[r].status = "failed"
                 /\ receipts'[r].error_message # None
                 /\ receipts'[r].progress = receipts[r].progress]_vars

\* the status changes the claimed ordering allows: pending to processing,
\* processing to a terminal status, and pending to a terminal status at the end
\* of inline (synchronous) processing
OrderedTransitions ==
    {<<"pending", "processing">>} \cup
    {<<s, t>> : s \in {"pending", "processing"}, t \in TerminalStatus}

\* C6: every job is first persisted as pending, and its status only moves
\* forward along pending, processing, terminal.
C6_StrictlyOrdered ==
    [][\A r \in DOMAIN receipts' :
          IF r \in DOMAIN receipts
          THEN \/ receipts'[r].status = receipts[r].status
               \/ <<receipts[r].status, receipts'[r].status>> \in OrderedTransitions
          ELSE receipts'[r].status = "pending"]_vars

\* every transaction of every draft recorded for receipt r is a persisted row
AllDraftTransactionsCommitted(r) ==
    \A k \in DOMAIN processing_history :
        k[2] = r =>
            \A i \in 1..Len(processing_history[k].transactions) :
                \E x \in TransactionsOf(r) :
                    /\ transactions[x].description =
                           Some(processing_history[k].transactions[i].description)
                    /\ transactions[x].amount =
                           Some(processing_history[k].transactions[i].amount)

\* the call that just returned was a status query that reported a terminal
\* status, or full progress, for a job
ObservedTerminal ==
    /\ resp.op = "get_processing_status"
    /\ resp.code = 200
    /\ \/ resp.status \in {Some(s) : s \in TerminalStatus}
       \/ resp.progress = Some(100)

\* C7: no caller observes a terminal status (or a processed indication) for a
\* job before all Persisted Transactions of its Receipt Draft are committed.
C7_NoTerminalBeforeCommit ==
    ObservedTerminal => AllDraftTransactionsCommitted(Get(resp.receipt_id))

\* C8: get_status returns the status of the job's most recent transition, which
\* the row of the job records.
C8_StatusReflectsLatest ==
    (resp.op = "get_processing_status" /\ resp.code = 200)
        => resp.status = Some(receipts[Get(resp.receipt_id)].status)

\* a job submitted through POST /receipts/async
AsyncSubmitted(r) == r \in DOMAIN receipts /\ r \in DOMAIN processing_status_store

\* C9: every job submitted in async mode is scheduled as a background unit of
\* work that takes it to completed or failed: while such a job is processing,
\* a background task for it is scheduled or running.
C9_AsyncJobIsScheduled ==
    \A r \in ReceiptIds :
        (AsyncSubmitted(r) /\ receipts[r].status = "processing")
            => \E t \in DOMAIN tasks : tasks[t].receipt_id = r

\* an upload with an accepted extension was answered with the 500 of the
\* handler's except branch: its processing failed
UploadFailed ==
    /\ resp'.op \in {"upload_receipt", "upload_receipt_async"}
    /\ resp'.code = 500
    /\ resp' # resp

\* C10: when the processing of an accepted upload fails, a Document Job for it
\* exists afterwards, with status failed and an error message.
C10_FailedUploadHasJob ==
    [][UploadFailed =>
          \E r \in DOMAIN receipts' \ DOMAIN receipts :
              /\ receipts'[r].status = "failed"
              /\ receipts'[r].error_message # None]_vars

\* the waits the claimed schedule prescribes, in order: 1s, then 2s
ClaimedWaits == <<1, 2>>

\* C11: one call of parse invokes the completion service at most 3 times, waits
\* 1s after the first failed attempt and 2s after the second and not after the
\* third, and returns at the first attempt that succeeds with the (enhanced)
\* result of that attempt; a return after fewer than 3 attempts is a success.
C11_ParseRetriesWithBackoff ==
    /\ \A t \in DOMAIN tasks :
          /\ tasks[t].attempt + 1 <= 3
          /\ Len(tasks[t].slept) <= 2
          /\ tasks[t].slept = SubSeq(ClaimedWaits, 1, Len(tasks[t].slept))
          /\ Len(tasks[t].slept) =
                 tasks[t].attempt + (IF tasks[t].pc = "sleep" THEN 1 ELSE 0)
    /\ parsed # NoParse =>
          /\ parsed.invocations \in 1..3
          /\ parsed.slept = SubSeq(ClaimedWaits, 1, parsed.invocations - 1)
          /\ parsed.invocations < 3 => parsed.answer # None
          /\ parsed.answer # None =>
                 parsed.result =
                     Some(_enhance_results(ReceiptData(Get(parsed.answer)),
                                           category_patterns))

\* a parse call failed twice and succeeded on the third attempt, after 1s + 2s
C11_Witness ==
    /\ parsed.invocations = 3
    /\ parsed.answer # None
    /\ parsed.slept = <<1, 2>>

\* the first 50 characters of an error text, or all of a shorter one
ErrorHead(e) == [i \in 1..(IF Len(e) < 50 THEN Len(e) ELSE 50) |-> e[i]]

\* C12: when all 3 attempts fail, parse returns (it does not raise) a fallback
\* draft with merchant and total unset, the current date as receipt date and
\* exactly one transaction of amount 0.0 and category "Miscellaneous" whose
\* description embeds the first 50 characters of the error message.
C12_FallbackAfterExhaustion ==
    (parsed # NoParse /\ parsed.answer = None) =>
        /\ parsed.error # None
        /\ parsed.invocations = 3
        /\ parsed.result # None
        /\ LET d == Get(parsed.result)
           IN  /\ d.merchant_name = None
               /\ d.receipt_total = None
               /\ d.receipt_date = Some(Today)
               /\ Len(d.transactions) = 1
               /\ d.transactions[1].amount = 0
               /\ d.transactions[1].category = Some(Miscellaneous)
               /\ Len(d.transactions[1].description) <=
                      Len(ParsingFailedPrefix) + 50 + Len(Ellipsis)
               /\ IsSubstring(ErrorHead(Get(parsed.error)),
                              d.transactions[1].description)

\* a parse call returned the fallback for an error text longer than 50 characters
C12_Witness ==
    /\ parsed.answer = None
    /\ parsed.error # None
    /\ Len(Get(parsed.error)) > 50

\* the user who owns the receipt of transaction x
OwnerOf(x) == receipts[transactions[x].receipt_id].user_id

\* the Ledger Expenses of table e created from transaction x
ExpensesFrom(e, x) == {i \in DOMAIN e : e[i].source = x}

\* C13: add-to-expenses by the owner succeeds on a transaction not yet added and
\* leaves exactly one Ledger Expense created from it; a following call on the
\* same transaction returns the failure indicator and adds no expense.
C13_SecondAddFails ==
    [][/\ \A f \in running :
             AddTransactionToExpensesCommits(f) =>
                 /\ resp'.code = 200
                 /\ transactions'[f.transaction_id].added_to_expenses
                 /\ Cardinality(ExpensesFrom(expenses', f.transaction_id)) = 1
       /\ \A x \in DOMAIN transactions, u \in Users :
             (/\ transactions[x].added_to_expenses
              /\ OwnerOf(x) = u
              /\ AddTransactionToExpenses(x, u)) =>
                 /\ resp'.code = 400
                 /\ expenses' = expenses
                 /\ Cardinality(ExpensesFrom(expenses', x)) = 1]_vars

\* the owner's second add-to-expenses call on a transaction has been refused
C13_Witness ==
    /\ resp.op = "add_transaction_to_expenses"
    /\ resp.code = 400
    /\ resp.transaction_id \in DOMAIN transactions
    /\ transactions[resp.transaction_id].added_to_expenses
    /\ OwnerOf(resp.transaction_id) = resp.user_id
    /\ Cardinality(ExpensesFrom(expenses, resp.transaction_id)) = 1

\* C14: in every state of the store a transaction with added_to_expenses set
\* has an expense id and exactly one Ledger Expense created from it, and no
\* Ledger Expense created from a transaction exists while the transaction's
\* added_to_expenses is false.
C14_AddedIffExpense ==
    /\ \A x \in DOMAIN transactions :
          transactions[x].added_to_expenses =>
              /\ transactions[x].expense_id # None
              /\ Cardinality(ExpensesFrom(expenses, x)) = 1
    /\ \A i \in DOMAIN expenses :
          expenses[i].source \in DOMAIN transactions =>
              transactions[expenses[i].source].added_to_expenses

\* the operations on one transaction that answer with a TransactionResponse
TransactionOps ==
    {"update_transaction", "add_transaction_to_expenses",
     "submit_transaction_feedback"}

\* C15: an operation on a receipt or on a transaction issued by a user who does
\* not own the receipt is refused (it is not answered with success) and changes
\* neither the receipt nor its transactions.
C15_NonOwnerRefused ==
    [][/\ (/\ resp'.op \in TransactionOps
           /\ resp'.transaction_id \in DOMAIN transactions
           /\ OwnerOf(resp'.transaction_id) # resp'.user_id) =>
              /\ resp'.code # 200
              /\ receipts' = receipts
              /\ transactions' = transactions
       /\ \A r \in DOMAIN receipts, u \in Users :
             (/\ receipts[r].user_id # u
              /\ DeleteReceipt(r, u) \/ GetProcessingStatus(r, u)) =>
                 /\ resp'.code = 404
                 /\ receipts' = receipts
                 /\ transactions' = transactions]_vars

\* a step in which a transaction-feedback submission on an existing transaction
\* of the caller is answered with success
FeedbackSubmitted ==
    /\ resp'.op = "submit_transaction_feedback"
    /\ resp'.code = 200
    /\ resp'.transaction_id \in DOMAIN transactions
    /\ resp'.transaction_id \in DOMAIN transactions'

\* the feedback of the submission answered in this step, as record_user_feedback
\* stored it
SubmittedFeedback ==
    user_feedback_store'[<<resp'.user_id,
                           transactions[resp'.transaction_id].receipt_id,
                           resp'.transaction_id>>]

\* the correction-history entry of a submission: the values before it and the
\* corrections submitted
HistoryEntry(row, corrections) ==
    [previous    |-> [description |-> row.description, amount |-> row.amount,
                      date |-> row.date, category |-> row.category],
     corrections |-> corrections]

\* C16: every feedback submission on an existing transaction appends exactly
\* one correction-history entry, holding the values before the correction and
\* the submitted corrections, and leaves the earlier entries as they were.
C16_HistoryAppended ==
    [][FeedbackSubmitted =>
          LET x == resp'.transaction_id
          IN  transactions'[x].correction_history =
                  Append(transactions[x].correction_history,
                         HistoryEntry(transactions[x], SubmittedFeedback))]_vars

\* C17: after any feedback submission on an existing transaction, verified and
\* user_verified of that transaction are both true.
C17_FeedbackVerifies ==
    [][FeedbackSubmitted =>
          /\ transactions'[resp'.transaction_id].verified
          /\ transactions'[resp'.transaction_id].user_verified]_vars

\* the value a date field of the feedback gives the date column
DateColumn(v) ==
    IF Get(v).type = "date" THEN Some(Get(v).value) ELSE Some(Strptime(Get(v).value))

\* C18: a feedback submission sets each of description, amount, date and
\* category for which it carries a value to that value and leaves the others
\* as they were.
C18_PartialUpdate ==
    [][FeedbackSubmitted =>
          LET x  == resp'.transaction_id
              fb == SubmittedFeedback
          IN  /\ transactions'[x].description =
                     IF fb.correct_description # None
                     THEN fb.correct_description ELSE transactions[x].description
              /\ transactions'[x].amount =
                     IF fb.correct_amount # None
                     THEN fb.correct_amount ELSE transactions[x].amount
              /\ transactions'[x].date =
                     IF fb.correct_date # None
                     THEN DateColumn(fb.correct_date) ELSE transactions[x].date
              /\ transactions'[x].category =
                     IF fb.correct_category # None
                     THEN fb.correct_category ELSE transactions[x].category]_vars

\* the keywords the table holds for a category
KeywordsOf(table, category) ==
    UNION {{table[i].patterns[j] : j \in 1..Len(table[i].patterns)} :
              i \in {k \in 1..Len(table) : table[k].category = category}}

\* the first two tokens longer than 3 characters of a description, in lower case
FirstLongTokens(description) ==
    LET words == FirstN(Words(description), 2)
    IN  {words[i] : i \in 1..Len(words)}

\* C19: after a transaction-feedback submission with a corrected category C,
\* each of the first two tokens longer than 3 characters of the transaction's
\* description is a keyword of C in the Category Hint Table (so that a later
\* parse can suggest C for a description holding the token).
C19_FeedbackTeachesCategory ==
    [][(FeedbackSubmitted /\ SubmittedFeedback.correct_category # None) =>
          LET x == resp'.transaction_id
              learned == KeywordsOf(category_patterns',
                                    Get(SubmittedFeedback.correct_category))
          IN  transactions[x].description # None =>
                  FirstLongTokens(Get(transactions[x].description)) \subseteq learned]_vars

\* the calls in the middle of a mutation of the Category Hint Table
Writers(calls) == {f \in calls : f.op = "record_user_feedback"}

\* a step of a background task that reads the table: the serialization into the
\* request at the start of parse, or the category suggestion on an answer
ReadsCategoryPatterns ==
    \E t \in DOMAIN tasks :
        \/ tasks[t].pc = "scheduled" /\ t \in DOMAIN tasks' /\ tasks'[t].pc = "ainvoke"
        \/ tasks[t].pc = "ainvoke" /\ parsed' # NoParse /\ parsed'.answer # None

\* C20: however feedback-driven mutations of the Category Hint Table interleave
\* with parse calls in flight, at most one call is in the middle of a mutation,
\* and no read of the table (serialization, category suggestion) happens while
\* one is: each read sees the table before or after a whole mutation.
C20_NoPartialRead ==
    [][/\ Cardinality(Writers(running)) <= 1
       /\ Cardinality(Writers(running')) <= 1
       /\ ReadsCategoryPatterns => Writers(running) = {}]_vars

\* a feedback call stands between its two appends while a parse call is in flight
C20_Witness ==
    /\ Writers(running) # {}
    /\ \E t \in DOMAIN tasks : tasks[t].pc \in {"ainvoke", "sleep"}

\* C21: _enhance_results is a pure function of the draft and the hint table: a
\* call returns what the draft and the table determine, and the draft passed
\* in is the same after the call as before it.
C21_EnhanceIsPure ==
    [][EnhanceResults =>
          /\ returned' = Some(_enhance_results(Get(draft), category_patterns))
          /\ draft' = draft]_vars

\* |n|
Abs(n) == IF n < 0 THEN 0 - n ELSE n

\* C22: for a draft whose receipt total is present (any value, 0 included),
\* enhance changes neither the total nor a line-item amount and warns exactly
\* when |sum of amounts - total| is more than 1% of the total; only when the
\* total is absent is it set to the sum.
C22_TotalReconciled ==
    [][EnhanceResults =>
          LET before == Get(draft)
              after  == Get(returned')
              sum    == SumAmounts(before.transactions)
          IN  /\ Len(after.transactions) = Len(before.transactions)
              /\ \A i \in 1..Len(before.transactions) :
                    after.transactions[i].amount = before.transactions[i].amount
              /\ IF before.receipt_total # None
                 THEN /\ after.receipt_total = before.receipt_total
                      /\ warned' <=>
                            100 * Abs(sum - Get(before.receipt_total))
                                > Get(before.receipt_total)
                 ELSE after.receipt_total = Some(sum)]_vars

\* the categories of the table, by position, with a keyword that occurs in the
\* text whatever the case of either
CategoriesMatching(table, text) ==
    {i \in 1..Len(table) :
        \E k \in 1..Len(table[i].patterns) :
            IsSubstring(Lower(table[i].patterns[k]), Lower(text))}

\* C23: a line item whose category is unset or Miscellaneous gets the first
\* category, in the table's insertion order, one of whose keywords occurs
\* (case-insensitively) in its description and the merchant name; it stays
\* Miscellaneous when no keyword matches; an item with another category keeps
\* it.
C23_FirstMatchingCategory ==
    [][EnhanceResults =>
          LET before == Get(draft)
              after  == Get(returned')
              merchant == IF before.merchant_name = None THEN << >>
                          ELSE Get(before.merchant_name)
          IN  \A i \in 1..Len(before.transactions) :
                 LET t == before.transactions[i]
                     matching == CategoriesMatching(category_patterns,
                                     t.description \o Space \o merchant)
                 IN  IF t.category \in {None, Some(Miscellaneous)}
                     THEN IF matching = {}
                          THEN after.transactions[i].category = Some(Miscellaneous)
                          ELSE /\ after.transactions[i].category # None
                               /\ \E m \in matching :
                                     /\ \A n \in matching : m <= n
                                     /\ Get(after.transactions[i].category)
                                            = category_patterns[m].category
                     ELSE after.transactions[i].category = t.category]_vars

\* an enhanced draft with an item whose description has keywords of Food and of
\* Travel, categorised as Food, the earlier of the two in the table
C23_Witness ==
    /\ returned # None
    /\ \E i \in 1..Len(Get(returned).transactions) :
          /\ Get(returned).transactions[i].description = ItemTaxiLunch.description
          /\ Get(returned).transactions[i].category = Some(Food)

\* C24: a line item the completion service returned without a date, on a
\* receipt whose date is present, carries the receipt date in the draft that
\* _parse_receipt_text returns (not the current date); an item returned with a
\* date keeps it.
C24_DateBackfilled ==
    parsed.answer # None =>
        LET json   == Get(parsed.answer)
            result == Get(parsed.result)
        IN  \A i \in 1..Len(json.transactions) :
               IF json.transactions[i].date = None
               THEN json.receipt_date # None =>
                       result.transactions[i].date = json.receipt_date
               ELSE json.receipt_date = None =>
                       result.transactions[i].date = json.transactions[i].date

\* a word is one of the keywords of a list
InList(word, keywords) == \E j \in 1..Len(keywords) : keywords[j] = word

\* a list with a word appended unless the list has it
WithWord(keywords, word) ==
    IF InList(word, keywords) THEN keywords ELSE Append(keywords, word)

\* C25: feedback with description d and corrected category C takes the tokens
\* of d longer than 3 characters in their order; for a category in the table
\* at most the first two are appended to its keywords, each only if it is not
\* there already; a new category is created with at most the first three; no
\* other category's keywords change.
C25_LearnsFirstTokens ==
    [][\A d \in Descriptions, c \in Categories :
          UpdateCategoryPatterns(d, c) =>
             LET old    == category_patterns
                 new    == category_patterns'
                 tokens == Words(d)
             IN  /\ Len(new) >= Len(old)
                 /\ \A i \in 1..Len(old) :
                       /\ new[i].category = old[i].category
                       /\ old[i].category # c => new[i].patterns = old[i].patterns
                       /\ old[i].category = c =>
                             new[i].patterns =
                                IF Len(tokens) = 0 THEN old[i].patterns
                                ELSE IF Len(tokens) = 1
                                THEN WithWord(old[i].patterns, tokens[1])
                                ELSE WithWord(WithWord(old[i].patterns, tokens[1]),
                                              tokens[2])
                 /\ IF \E i \in 1..Len(old) : old[i].category = c
                    THEN Len(new) = Len(old)
                    ELSE /\ Len(new) = Len(old) + 1
                         /\ new[Len(new)].category = c
                         /\ new[Len(new)].patterns =
                               SubSeq(tokens, 1, IF Len(tokens) < 3 THEN Len(tokens) ELSE 3)]_vars

\* Travel has learned `ride` and `home` after its defaults, and a category
\* created by feedback holds three tokens
C25_Witness ==
    /\ \E i \in 1..Len(category_patterns) :
          /\ category_patterns[i].category = Travel
          /\ Len(category_patterns[i].patterns) = 10
          /\ category_patterns[i].patterns[9] = <<"r","i","d","e">>
          /\ category_patterns[i].patterns[10] = <<"h","o","m","e">>
    /\ \E i \in 1..Len(category_patterns) :
          /\ category_patterns[i].category = Commute
          /\ category_patterns[i].patterns =
                << <<"u","b","e","r">>, <<"r","i","d","e">>, <<"h","o","m","e">> >>

\* C26: after any sequence of feedback submissions from the default table,
\* no category of the Category Hint Table has a keyword twice, the categories
\* created by feedback included.
C26_KeywordsAreSets ==
    \A i \in 1..Len(category_patterns) :
       \A j, k \in 1..Len(category_patterns[i].patterns) :
          j # k => category_patterns[i].patterns[j] # category_patterns[i].patterns[k]

FeedbackReturns ==
    /\ resp'.op \in {"submit_transaction_feedback", "record_user_feedback"}
    /\ resp'.code \in {200, 500}
    /\ resp'.transaction_id \in DOMAIN transactions
    /\ resp'.transaction_id \in DOMAIN transactions'

\* the transaction of the feedback answered in this step is marked as corrected
\* by the user and has the corrected category of the feedback
FeedbackCommitted ==
    LET x == resp'.transaction_id
    IN  /\ transactions'[x].user_verified
        /\ ("correct_category" \in DOMAIN SubmittedFeedback
               /\ SubmittedFeedback.correct_category # None) =>
                  transactions'[x].category = SubmittedFeedback.correct_category

\* C28: record_user_feedback answers with success only if the Persisted
\* Transaction was updated and committed; when the update fails the caller
\* gets a failure and the Category Hint Table and the feedback store are as
\* they were before.
C28_SuccessMeansCommitted ==
    [][FeedbackReturns =>
          IF FeedbackCommitted
          THEN resp'.code = 200
          ELSE /\ resp'.code # 200
               /\ category_patterns' = category_patterns
               /\ user_feedback_store' = user_feedback_store]_vars

\* the receipt count an answer of get_merchant_insights reports (none when the
\* answer is the message that no receipt was found)
ReceiptCount(insights) ==
    IF "receipt_count" \in DOMAIN insights THEN insights.receipt_count ELSE 0

\* C29: get_merchant_insights(merchant, user) reflects the processing history
\* at the time of the call: the receipt count it reports is the number of
\* processing-history entries with that merchant, also when the same query was
\* made before more receipts were processed.
C29_InsightsAreCurrent ==
    [][\A m \in MerchantNames, u \in Users :
          GetMerchantInsights(m, u) =>
              ReceiptCount(resp'.insights) =
                  Cardinality({k \in DOMAIN processing_history :
                                  processing_history[k].merchant_name = Some(m)})]_vars

\* C30: within one _parse_receipt_text call the table sent to the completion
\* service on every attempt and the table the enhancement step uses are the
\* same snapshot, also when feedback changes the Category Hint Table while the
\* call is suspended: in the step that enhances the answer, the table read is
\* the one written into the prompt.
C30_OneSnapshotPerParse ==
    [][\A t \in DOMAIN tasks :
          (BackgroundAinvokeReturns(t) /\ parsed'.answer # None) =>
              /\ tasks[t].category_patterns_str = Some(category_patterns)
              /\ parsed'.result =
                    Some(_enhance_results(ReceiptData(Get(parsed'.answer)),
                                          Get(tasks[t].category_patterns_str)))]_vars
====
